---- MODULE Spec2Model ----
(***************************************************************************)
(* Model of the string-replacer file processor                             *)
(* (src/src/models/file_processor.py) over a small POSIX file system.      *)
(*                                                                         *)
(* Text is a sequence of one-character strings.  An Optional[str] is a     *)
(* sequence of length 0 (None) or 1 (the string).  A path is text; the     *)
(* file system maps resolved paths (sequences of components) to contents.  *)
(***************************************************************************)
EXTENDS Integers, Sequences, FiniteSets, TLC

VARIABLES config, fs, env, view, last, nproc

vars == <<config, fs, env, view, last, nproc>>

----------------------------------------------------------------------------
(* Bounds of the model *)

\* longest password drawn for the first line of a rotation input
MaxPwLen == 2
\* longest body (text after the first line) of a rotation input
MaxBodyLen == 2
\* the longest string random.choices is asked for: a call that would draw
\* a longer one (the default length 10) is not explored
MaxLen == 1
\* number of process_file / process_db_password_file calls in one run
MaxProc == 1
\* longest source content of a plain find/replace input
MaxContentLen == 3
\* longest find_text of a plain find/replace input
MaxFindLen == 2
\* longest replace_text of a plain find/replace input
MaxReplaceLen == 1
\* longest base name of a source file whose default output name is derived
MaxNameLen == 3

----------------------------------------------------------------------------
(* Text helpers *)

None == << >>

Some(x) == << x >>

\* all texts over the characters cs of length lo..hi
Texts(cs, lo, hi) == UNION { [1..n -> cs] : n \in lo..hi }

\* Python truthiness of a str
Truthy(s) == Len(s) > 0

\* s[i:i+len(pat)] == pat
MatchAt(s, pat, i) ==
    /\ i >= 1
    /\ i + Len(pat) - 1 <= Len(s)
    /\ \A k \in 1..Len(pat) : s[i + k - 1] = pat[k]

\* pat in s
Contains(s, pat) == \E i \in 1..(Len(s) + 1) : MatchAt(s, pat, i)

RECURSIVE ReplaceFrom(_, _, _, _)
ReplaceFrom(s, old, new, i) ==
    IF i > Len(s) THEN << >>
    ELSE IF MatchAt(s, old, i)
         THEN new \o ReplaceFrom(s, old, new, i + Len(old))
         ELSE << s[i] >> \o ReplaceFrom(s, old, new, i + 1)

RECURSIVE Interleave(_, _, _)
Interleave(s, new, i) ==
    IF i > Len(s) THEN new
    ELSE new \o << s[i] >> \o Interleave(s, new, i + 1)

\* str.replace(old, new): every non-overlapping occurrence, leftmost first;
\* an empty old matches before every character and at the end
str_replace(s, old, new) ==
    IF Len(old) = 0 THEN Interleave(s, new, 1) ELSE ReplaceFrom(s, old, new, 1)

\* the characters str.strip() and the regex class \s remove or match
Whitespace == {" ", "\t", "\n", "\r"}

RECURSIVE lstrip(_)
lstrip(s) ==
    IF Len(s) > 0 /\ s[1] \in Whitespace THEN lstrip(Tail(s)) ELSE s

RECURSIVE rstrip(_)
rstrip(s) ==
    IF Len(s) > 0 /\ s[Len(s)] \in Whitespace
    THEN rstrip(SubSeq(s, 1, Len(s) - 1)) ELSE s

str_strip(s) == rstrip(lstrip(s))

\* index of the first character of s at or after i that is in cs, 0 if none
RECURSIVE FirstIn(_, _, _)
FirstIn(s, cs, i) ==
    IF i > Len(s) THEN 0
    ELSE IF s[i] \in cs THEN i ELSE FirstIn(s, cs, i + 1)

\* index of the first character of s at or after i that is not in cs,
\* Len(s) + 1 if none
RECURSIVE FirstNotIn(_, _, _)
FirstNotIn(s, cs, i) ==
    IF i > Len(s) THEN Len(s) + 1
    ELSE IF s[i] \notin cs THEN i ELSE FirstNotIn(s, cs, i + 1)

\* the whole content taken as its first line
first_line_of_whole(content) == content

\* content.split('\n')[0]
first_line_of(content) ==
    LET n == FirstIn(content, {"\n"}, 1)
    IN IF n = 0 THEN content ELSE SubSeq(content, 1, n - 1)

\* re.IGNORECASE on the letters of the two keywords
UpperOf ==
    [c \in {"a", "b", "c", "e", "l", "p", "r", "y"} |->
        CASE c = "a" -> "A" [] c = "b" -> "B" [] c = "c" -> "C"
          [] c = "e" -> "E" [] c = "l" -> "L" [] c = "p" -> "P"
          [] c = "r" -> "R" [] c = "y" -> "Y"]

Fold(c) == IF c \in DOMAIN UpperOf THEN UpperOf[c] ELSE c

\* the match of  kw\s+"([^"]+)"  that starts at i: Some(group 1) or None
QuotedAt(line, kw, i) ==
    IF ~ ( /\ i + Len(kw) - 1 <= Len(line)
           /\ \A k \in 1..Len(kw) : Fold(line[i + k - 1]) = kw[k] )
    THEN None
    ELSE LET ws == i + Len(kw)
             q1 == FirstNotIn(line, Whitespace, ws)
         IN IF q1 = ws \/ q1 > Len(line) \/ line[q1] # "\""
            THEN None
            ELSE LET q2 == FirstIn(line, {"\""}, q1 + 1)
                 IN IF q2 = 0 \/ q2 = q1 + 1 THEN None
                    ELSE Some(SubSeq(line, q1 + 1, q2 - 1))

\* re.search(kw\s+"([^"]+)", line, re.IGNORECASE): group 1 of the leftmost
\* match, or None
RECURSIVE re_search_from(_, _, _)
re_search_from(line, kw, i) ==
    IF i > Len(line) THEN None
    ELSE LET m == QuotedAt(line, kw, i)
         IN IF m # None THEN m ELSE re_search_from(line, kw, i + 1)

by_pattern == << "B", "Y" >>

replace_pattern == << "R", "E", "P", "L", "A", "C", "E" >>

\* the REPLACE search made only after the BY search has matched
extract_db_passwords_by_first(content) ==
    IF ~ Truthy(str_strip(content)) THEN << None, None >>
    ELSE LET first_line == first_line_of(content)
             by_match == re_search_from(first_line, by_pattern, 1)
         IN << by_match,
               IF by_match = None THEN None
               ELSE re_search_from(first_line, replace_pattern, 1) >>

\* FileProcessor.extract_db_passwords_from_first_line
extract_db_passwords_from_first_line(content) ==
    IF ~ Truthy(str_strip(content)) THEN << None, None >>
    ELSE LET first_line == first_line_of(content)
         IN << re_search_from(first_line, by_pattern, 1),
               re_search_from(first_line, replace_pattern, 1) >>

----------------------------------------------------------------------------
(* posixpath and the file system *)

SLASH == "/"

\* index of the last "/" of p, 0 if none
RECURSIVE rfind_slash(_, _)
rfind_slash(p, i) ==
    IF i = 0 THEN 0 ELSE IF p[i] = SLASH THEN i ELSE rfind_slash(p, i - 1)

RECURSIVE rstrip_slash(_)
rstrip_slash(p) ==
    IF Len(p) > 0 /\ p[Len(p)] = SLASH
    THEN rstrip_slash(SubSeq(p, 1, Len(p) - 1)) ELSE p

\* os.path.basename
basename(p) == SubSeq(p, rfind_slash(p, Len(p)) + 1, Len(p))

\* index of the last "." of p at or before i, 0 if none
RECURSIVE rfind_dot(_, _)
rfind_dot(p, i) ==
    IF i = 0 THEN 0 ELSE IF p[i] = "." THEN i ELSE rfind_dot(p, i - 1)

\* os.path.splitext of a base name: << root, ext >>.  The name is split at
\* its last dot unless only dots come before that dot
splitext(p) ==
    LET dotIndex == rfind_dot(p, Len(p))
    IN IF dotIndex = 0 \/ \A k \in 1..(dotIndex - 1) : p[k] = "."
       THEN << p, << >> >>
       ELSE << SubSeq(p, 1, dotIndex - 1), SubSeq(p, dotIndex, Len(p)) >>

\* os.path.dirname
dirname(p) ==
    LET head == SubSeq(p, 1, rfind_slash(p, Len(p)))
    IN IF Len(head) > 0 /\ \E k \in 1..Len(head) : head[k] # SLASH
       THEN rstrip_slash(head) ELSE head

\* os.path.join(a, b)
path_join(a, b) ==
    IF Len(b) > 0 /\ b[1] = SLASH THEN b
    ELSE IF Len(a) = 0 \/ a[Len(a)] = SLASH THEN a \o b
    ELSE a \o << SLASH >> \o b

\* p.split('/')
RECURSIVE Components(_)
Components(p) ==
    LET n == FirstIn(p, {SLASH}, 1)
    IN IF n = 0 THEN << p >>
       ELSE << SubSeq(p, 1, n - 1) >> \o Components(SubSeq(p, n + 1, Len(p)))

\* the directories of the file system: /, /d and /e; they are never removed
Dirs == { << >>, << <<"d">> >>, << <<"e">> >> }

\* the working directory of the process
Cwd == << <<"d">> >>

\* path resolution by the kernel: every component is looked up in a
\* directory; None when a component is looked up in something that is not one
RECURSIVE Walk(_, _, _)
Walk(cur, comps, i) ==
    IF i > Len(comps) THEN Some(cur)
    ELSE IF cur \notin Dirs THEN None
    ELSE IF comps[i] = << >> \/ comps[i] = << "." >> THEN Walk(cur, comps, i + 1)
    ELSE IF comps[i] = << ".", "." >>
         THEN Walk(IF Len(cur) = 0 THEN cur ELSE SubSeq(cur, 1, Len(cur) - 1),
                   comps, i + 1)
    ELSE Walk(cur \o << comps[i] >>, comps, i + 1)

Resolve(p) ==
    IF Len(p) = 0 THEN None
    ELSE Walk(IF p[1] = SLASH THEN << >> ELSE Cwd, Components(p), 1)

\* os.path.exists(p) in the file system f
path_exists(f, p) ==
    /\ Resolve(p) # None
    /\ Resolve(p)[1] \in Dirs \cup DOMAIN f

\* open(p, 'r').read() succeeds
CanRead(f, p) == Resolve(p) # None /\ Resolve(p)[1] \in DOMAIN f

\* open(p, 'w') succeeds: the parent is a directory, the target is not
CanWrite(f, p) == Resolve(p) # None /\ Resolve(p)[1] \notin Dirs

\* the file system after open(p, 'w').write(content)
WriteFile(f, p, content) ==
    LET node == Resolve(p)[1]
    IN [q \in DOMAIN f \cup {node} |-> IF q = node THEN content ELSE f[q]]

\* the directory a resolved file lies in
ParentOf(node) == SubSeq(node, 1, Len(node) - 1)

\* the environment without faults: every file can be opened for reading and
\* holds valid UTF-8, and the disk has room
NoFaults == [ unreadable |-> {}, undecodable |-> {}, disk_full |-> FALSE ]

\* open(p, 'r', encoding='utf-8') followed by read() succeeds in the file
\* system f and the environment e
CanReadText(f, e, p) ==
    /\ CanRead(f, p)
    /\ Resolve(p)[1] \notin e.unreadable \cup e.undecodable

\* what read() returns for the characters of a file opened in text mode with
\* the default newline=None: "\r\n" and a lone "\r" become "\n"
RECURSIVE universal_newlines(_)
universal_newlines(s) ==
    IF Len(s) = 0 THEN << >>
    ELSE IF s[1] = "\r"
         THEN << "\n" >> \o universal_newlines(
                  IF Len(s) > 1 /\ s[2] = "\n"
                  THEN SubSeq(s, 3, Len(s)) ELSE Tail(s))
         ELSE << s[1] >> \o universal_newlines(Tail(s))

\* open(p, 'r', encoding='utf-8').read() in the file system f
read_text(f, p) == universal_newlines(f[Resolve(p)[1]])

\* the environment after open(p, 'w') replaced what the file held: the file
\* holds text again
Rewritten(e, p) == [e EXCEPT !.undecodable = @ \ { Resolve(p)[1] }]

\* what a write that fails part-way leaves in the file open(p, 'w') has
\* created or truncated: a proper prefix of the content
PartialWrites(content) ==
    { SubSeq(content, 1, k) : k \in 0..(Len(content) - 1) }

----------------------------------------------------------------------------
(* FileProcessorConfig and FileProcessor *)

\* FileProcessorConfig(): the field defaults
FileProcessorConfig ==
    [ source_file_path  |-> << >>,
      find_text         |-> << >>,
      replace_text      |-> << >>,
      output_file_name  |-> << >>,
      max_random_length |-> 10 ]

\* the letters of each class that random.choices draws from in the model
ascii_uppercase == << "E" >>

ascii_lowercase == << "a", "b" >>

digits == << "1" >>

\* the char_set built from every class, whatever the flags are
char_set_of_every_class(use_uppercase, use_lowercase, use_numbers) ==
    ascii_uppercase \o ascii_lowercase \o digits

\* the char_set generate_random_string builds
char_set_of(use_uppercase, use_lowercase, use_numbers) ==
    (IF use_uppercase THEN ascii_uppercase ELSE << >>)
        \o (IF use_lowercase THEN ascii_lowercase ELSE << >>)
        \o (IF use_numbers THEN digits ELSE << >>)

\* the check of the length with < in place of <=
generate_error_zero_allowed(length, use_uppercase, use_lowercase, use_numbers) ==
    IF length < 0 THEN "ValueError"
    ELSE IF ~ Truthy(char_set_of(use_uppercase, use_lowercase, use_numbers))
         THEN "ValueError"
    ELSE "none"

\* the exception generate_random_string raises, "none" if it returns
generate_error(length, use_uppercase, use_lowercase, use_numbers) ==
    IF length <= 0 THEN "ValueError"
    ELSE IF ~ Truthy(char_set_of(use_uppercase, use_lowercase, use_numbers))
         THEN "ValueError"
    ELSE "none"

\* the strings ''.join(random.choices(char_set, k=length)) can return
\* (no string when length exceeds the longest the model draws)
random_choices(length, use_uppercase, use_lowercase, use_numbers) ==
    LET cs == char_set_of(use_uppercase, use_lowercase, use_numbers)
    IN IF length > MaxLen THEN {}
       ELSE [1..length -> { cs[k] : k \in 1..Len(cs) }]

\* BY "new_pw" REPLACE "cur_pw"
by_clause(pw) == << "B", "Y", " ", "\"" >> \o pw \o << "\"" >>

replace_clause(pw) ==
    << "R", "E", "P", "L", "A", "C", "E", " ", "\"" >> \o pw \o << "\"" >>

rotation_line(new_pw, cur_pw) ==
    by_clause(new_pw) \o << " " >> \o replace_clause(cur_pw)

\* MainView(root): the fields of the window as _create_widgets leaves them
MainView ==
    [ file_path |-> << >>,
      find_text |-> << >>,
      replace_text |-> << >>,
      random_length |-> << "1", "0" >>,
      use_uppercase |-> TRUE,
      use_lowercase |-> TRUE,
      use_numbers |-> TRUE,
      db_pwd_mode |-> FALSE,
      output_file_name |-> << >>,
      status_color |-> "blue" ]

\* the files of the initial file system: /d/f holds a rotation input whose
\* new password is "b" and whose current password is "a", /d/g a text
\* without the patterns
InitFs ==
    [ node \in { << <<"d">>, <<"f">> >>, << <<"d">>, <<"g">> >> } |->
        IF node[2] = <<"f">>
        THEN rotation_line(<< "b" >>, << "a" >>) \o << "\n", "a", "b" >>
        ELSE << "a", "b", "\n", "a" >> ]

\* what the last call did: the call, its arguments, the exception it raised
\* ("none" if it returned), the value it returned, the file system it
\* started from, the environment it started in, the files it opened, the file
\* it wrote and, for a rotation, the passwords it worked with
Outcome(op, arg, err, ret, io, wrote, rot) ==
    [ op |-> op, arg |-> arg, err |-> err, ret |-> ret,
      pre_fs |-> fs, pre_env |-> env,
      io |-> io, wrote |-> wrote, rot |-> rot ]

\* FileProcessor.__init__ on the initial file system
InitLast(f) ==
    [ op |-> "init", arg |-> << >>, err |-> "none", ret |-> None,
      pre_fs |-> f, pre_env |-> NoFaults,
      io |-> {}, wrote |-> None, rot |-> None ]

\* set_source_file with the assignment moved before the existence check
set_source_file_unchecked(file_path) ==
    /\ config' = [config EXCEPT !.source_file_path = file_path]
    /\ last' = Outcome("set_source_file", file_path,
                       IF path_exists(fs, file_path)
                       THEN "none" ELSE "FileNotFoundError",
                       None, {}, None, None)
    /\ UNCHANGED << fs, env, view, nproc >>

\* FileProcessor.set_source_file(file_path)
set_source_file(file_path) ==
    /\ IF ~ path_exists(fs, file_path)
       THEN /\ config' = config
            /\ last' = Outcome("set_source_file", file_path,
                               "FileNotFoundError", None, {}, None, None)
       ELSE /\ config' = [config EXCEPT !.source_file_path = file_path]
            /\ last' = Outcome("set_source_file", file_path,
                               "none", None, {}, None, None)
    /\ UNCHANGED << fs, env, view, nproc >>

\* FileProcessor.set_find_replace_text(find_text, replace_text)
set_find_replace_text(find_text, replace_text) ==
    /\ config' = [config EXCEPT !.find_text = find_text,
                                !.replace_text = replace_text]
    /\ last' = Outcome("set_find_replace_text", << find_text, replace_text >>,
                       "none", None, {}, None, None)
    /\ UNCHANGED << fs, env, view, nproc >>

\* FileProcessor.set_output_file_name(output_file_name)
set_output_file_name(output_file_name) ==
    /\ config' = [config EXCEPT !.output_file_name = output_file_name]
    /\ last' = Outcome("set_output_file_name", output_file_name,
                       "none", None, {}, None, None)
    /\ UNCHANGED << fs, env, view, nproc >>

\* FileProcessor.set_max_random_length(length): a plain attribute assignment;
\* the config class does not set validate_assignment, so the validator of
\* max_random_length runs at construction only
set_max_random_length(length) ==
    /\ config' = [config EXCEPT !.max_random_length = length]
    /\ last' = Outcome("set_max_random_length", length,
                       "none", None, {}, None, None)
    /\ UNCHANGED << fs, env, view, nproc >>

\* FileProcessor.generate_random_string(length, ...); length is Optional
generate_random_string(length, use_uppercase, use_lowercase, use_numbers) ==
    LET n == IF length = None THEN config.max_random_length ELSE length[1]
        err == generate_error(n, use_uppercase, use_lowercase, use_numbers)
        arg == << length, use_uppercase, use_lowercase, use_numbers >>
    IN /\ IF err # "none"
          THEN last' = Outcome("generate_random_string", arg, err, None,
                               {}, None, None)
          ELSE \E r \in random_choices(n, use_uppercase, use_lowercase,
                                       use_numbers) :
                  last' = Outcome("generate_random_string", arg, "none",
                                  Some(r), {}, None, None)
       /\ UNCHANGED << config, fs, env, view, nproc >>

\* the decimal digits, digit d at index d + 1
DigitChars == << "0", "1", "2", "3", "4", "5", "6", "7", "8", "9" >>

\* n written with at least width digits, padded with zeros
RECURSIVE zero_padded(_, _)
zero_padded(n, width) ==
    IF width <= 1 /\ n < 10 THEN << DigitChars[n + 1] >>
    ELSE zero_padded(n \div 10, width - 1) \o << DigitChars[(n % 10) + 1] >>

\* today.strftime("%Y_%m_%d")
strftime(today) ==
    zero_padded(today.year, 4) \o << "_" >> \o zero_padded(today.month, 2)
        \o << "_" >> \o zero_padded(today.day, 2)

\* what get_default_output_name returns on the day today
default_output_name(cfg, today) ==
    IF ~ Truthy(cfg.source_file_path) THEN << >>
    ELSE LET base_name == basename(cfg.source_file_path)
             parts == splitext(base_name)
         IN parts[1] \o << "_" >> \o strftime(today) \o parts[2]

\* FileProcessor.get_default_output_name() when datetime.now() is today
get_default_output_name(today) ==
    /\ last' = Outcome("get_default_output_name", today, "none",
                       Some(default_output_name(config, today)),
                       {}, None, None)
    /\ UNCHANGED << config, fs, env, view, nproc >>

\* the output_path both process methods build
output_path_of(cfg) ==
    path_join(dirname(cfg.source_file_path), cfg.output_file_name)

\* the content process_file writes for the content it read
replaced_content(cfg, content) ==
    IF Truthy(cfg.find_text)
    THEN str_replace(content, cfg.find_text, cfg.replace_text)
    ELSE content

\* what process_file does with the configuration cfg in the file system f
\* and the environment e: every result it can have, with the exception
\* raised ("none" if it returned), the path returned, the files opened, the
\* file written, and the file system and environment it leaves
process_file_results(cfg, f, e) ==
    LET Result(err, ret, io, wrote, f2, e2) ==
            [ err |-> err, ret |-> ret, io |-> io, wrote |-> wrote,
              fs |-> f2, env |-> e2 ]
    IN IF ~ Truthy(cfg.source_file_path) \/ ~ Truthy(cfg.output_file_name)
       THEN { Result("ValueError", None, {}, None, f, e) }
       ELSE IF ~ CanReadText(f, e, cfg.source_file_path)
       THEN { Result("IOError", None, {"read"}, None, f, e) }
       ELSE LET read == read_text(f, cfg.source_file_path)
                content == replaced_content(cfg, read)
                output_path == output_path_of(cfg)
            IN IF ~ CanWrite(f, output_path)
               THEN { Result("IOError", None, {"read", "write"}, None, f, e) }
               ELSE IF e.disk_full /\ content # << >>
               THEN { Result("IOError", None, {"read", "write"},
                             Resolve(output_path),
                             WriteFile(f, output_path, part),
                             Rewritten(e, output_path)) :
                        part \in PartialWrites(content) }
               ELSE { Result("none", Some(output_path), {"read", "write"},
                             Resolve(output_path),
                             WriteFile(f, output_path, content),
                             Rewritten(e, output_path)) }

\* process_file forgetting the source path once it has processed the file
process_file_forgetting_source ==
    /\ nproc < MaxProc
    /\ nproc' = nproc + 1
    /\ view' = view
    /\ \E r \in process_file_results(config, fs, env) :
          /\ fs' = r.fs
          /\ env' = r.env
          /\ config' = IF r.err = "none"
                       THEN [config EXCEPT !.source_file_path = << >>]
                       ELSE config
          /\ last' = Outcome("process_file", << >>, r.err, r.ret, r.io,
                             r.wrote, None)

\* FileProcessor.process_file()
process_file ==
    /\ nproc < MaxProc
    /\ nproc' = nproc + 1
    /\ config' = config
    /\ view' = view
    /\ \E r \in process_file_results(config, fs, env) :
          /\ fs' = r.fs
          /\ env' = r.env
          /\ last' = Outcome("process_file", << >>, r.err, r.ret, r.io,
                             r.wrote, None)

\* the two replacements in the opposite order
rotate_content_swapped(content, new_pw, cur_pw, next_pw) ==
    str_replace(str_replace(content, cur_pw, new_pw), new_pw, next_pw)

\* the two sequential replacements of process_db_password_file
rotate_content(content, new_pw, cur_pw, next_pw) ==
    str_replace(str_replace(content, new_pw, next_pw), cur_pw, new_pw)

\* what process_db_password_file does, called as its callers call it, with
\* the configuration cfg in the file system f and the environment e: every
\* result it can have.  pre_generated_password is None when the caller does
\* not pass that keyword and Some(v) when it passes v (v is an
\* Optional[str]).  The method declares no such parameter, so a call that
\* passes it raises TypeError before the body runs.
process_db_password_file_results(cfg, f, e, use_uppercase, use_lowercase, use_numbers, pre_generated_password) ==
    LET Result(err, ret, io, wrote, rot, f2, e2) ==
            [ err |-> err, ret |-> ret, io |-> io, wrote |-> wrote,
              rot |-> rot, fs |-> f2, env |-> e2 ]
        Fail(err, io) == { Result(err, None, io, None, None, f, e) }
    IN IF pre_generated_password # None
       THEN Fail("TypeError", {})
       ELSE IF ~ Truthy(cfg.source_file_path)
                 \/ ~ Truthy(cfg.output_file_name)
       THEN Fail("ValueError", {})
       ELSE IF ~ CanReadText(f, e, cfg.source_file_path)
       THEN Fail("IOError", {"read"})
       ELSE LET content == read_text(f, cfg.source_file_path)
                pws == extract_db_passwords_from_first_line(content)
                gen_err == generate_error(cfg.max_random_length,
                               use_uppercase, use_lowercase, use_numbers)
                output_path == output_path_of(cfg)
            IN IF pws[1] = None \/ pws[2] = None
               THEN Fail("ValueError", {"read"})
               ELSE IF gen_err # "none"
               THEN Fail(gen_err, {"read"})
               ELSE UNION {
                    LET rot == [ new_pw |-> pws[1][1], cur_pw |-> pws[2][1],
                                 next_pw |-> next_pw, content |-> content ]
                        updated_content ==
                            rotate_content(content, pws[1][1], pws[2][1],
                                           next_pw)
                    IN IF ~ CanWrite(f, output_path)
                       THEN { Result("IOError", None, {"read", "write"},
                                     None, Some(rot), f, e) }
                       ELSE IF e.disk_full /\ updated_content # << >>
                       THEN { Result("IOError", None, {"read", "write"},
                                     Resolve(output_path), Some(rot),
                                     WriteFile(f, output_path, part),
                                     Rewritten(e, output_path)) :
                                part \in PartialWrites(updated_content) }
                       ELSE { Result("none", Some(output_path),
                                     {"read", "write"}, Resolve(output_path),
                                     Some(rot),
                                     WriteFile(f, output_path,
                                               updated_content),
                                     Rewritten(e, output_path)) } :
                    next_pw \in random_choices(cfg.max_random_length,
                                 use_uppercase, use_lowercase, use_numbers) }

\* FileProcessor.process_db_password_file(use_uppercase, use_lowercase,
\* use_numbers), with or without the keyword pre_generated_password
process_db_password_file(use_uppercase, use_lowercase, use_numbers, pre_generated_password) ==
    /\ nproc < MaxProc
    /\ nproc' = nproc + 1
    /\ config' = config
    /\ view' = view
    /\ \E r \in process_db_password_file_results(config, fs, env,
                 use_uppercase, use_lowercase, use_numbers,
                 pre_generated_password) :
          /\ fs' = r.fs
          /\ env' = r.env
          /\ last' = Outcome("process_db_password_file",
                             << use_uppercase, use_lowercase, use_numbers,
                                pre_generated_password >>,
                             r.err, r.ret, r.io, r.wrote, r.rot)

\* a call of FileProcessor.extract_db_passwords_from_first_line(content)
\* that returns the pair (new_password, current_password)
extract_db_passwords(content) ==
    /\ last' = Outcome("extract_db_passwords_from_first_line", content,
                       "none",
                       Some(extract_db_passwords_from_first_line(content)),
                       {}, None, None)
    /\ UNCHANGED << config, fs, env, view, nproc >>

----------------------------------------------------------------------------
(* MainController and the fields of MainView it reads and writes *)

\* int(length_str): Some(n) for a text of decimal digits, None (ValueError,
\* invalid literal) for any other text of the model
RECURSIVE digits_value(_)
digits_value(s) ==
    IF Len(s) = 0 THEN 0
    ELSE 10 * digits_value(SubSeq(s, 1, Len(s) - 1))
           + (CHOOSE d \in 0..9 : DigitChars[d + 1] = s[Len(s)])

int_of(s) ==
    IF Len(s) > 0 /\ \A k \in 1..Len(s) :
                        \E d \in 0..9 : DigitChars[d + 1] = s[k]
    THEN Some(digits_value(s)) ELSE None

\* what a controller method shows for what happened inside its try block:
\* the dialog (kind and title), the colour of the status line, and the
\* exception that leaves the method ("none": every exception is caught)
report_of_without_catch_all(failure, db_pwd_mode) ==
    CASE failure = "none" ->
           [ dialog |-> Some(<< "success",
                                IF db_pwd_mode
                                THEN "Database Password Processing Complete"
                                ELSE "Success" >>),
             status_color |-> "green", err |-> "none" ]
      [] failure = "FileNotFoundError" ->
           [ dialog |-> Some(<< "error", "File Not Found" >>),
             status_color |-> "red", err |-> "none" ]
      [] failure = "ValueError" ->
           [ dialog |-> Some(<< "error", "Invalid Input" >>),
             status_color |-> "red", err |-> "none" ]
      [] failure = "IOError" ->
           [ dialog |-> Some(<< "error", "File Operation Error" >>),
             status_color |-> "red", err |-> "none" ]
      [] OTHER ->
           [ dialog |-> None, status_color |-> "blue", err |-> failure ]

\* the except clauses of MainController.process_file and what follows a
\* model call that returned
report_of(failure, db_pwd_mode) ==
    CASE failure = "none" ->
           [ dialog |-> Some(<< "success",
                                IF db_pwd_mode
                                THEN "Database Password Processing Complete"
                                ELSE "Success" >>),
             status_color |-> "green", err |-> "none" ]
      [] failure = "FileNotFoundError" ->
           [ dialog |-> Some(<< "error", "File Not Found" >>),
             status_color |-> "red", err |-> "none" ]
      [] failure = "ValueError" ->
           [ dialog |-> Some(<< "error", "Invalid Input" >>),
             status_color |-> "red", err |-> "none" ]
      [] failure = "IOError" ->
           [ dialog |-> Some(<< "error", "File Operation Error" >>),
             status_color |-> "red", err |-> "none" ]
      [] OTHER ->
           [ dialog |-> Some(<< "error", "Unexpected Error" >>),
             status_color |-> "red", err |-> "none" ]

\* what a controller call did: the failure inside it ("none", "validation"
\* for a check of the controller itself, or the exception the model raised),
\* the path of the file the model read, the path the model returned
Done(failure, read, returned) ==
    [ failure |-> failure, read |-> read, returned |-> returned ]

\* the user types into fields of the window and ticks checkboxes: typed
\* gives the new content of the fields that change
user_input(typed) ==
    /\ view' = [ field \in DOMAIN view |->
                   IF field \in DOMAIN typed THEN typed[field]
                   ELSE view[field] ]
    /\ last' = Outcome("user_input", << >>, "none", None, {}, None, None)
    /\ UNCHANGED << config, fs, env, nproc >>

\* browse_file applying the chosen path before the model has checked it
browse_file_unchecked(file_path, today) ==
    /\ IF ~ Truthy(file_path)
       THEN /\ config' = config
            /\ view' = view
            /\ last' = Outcome("browse_file", << file_path, today >>, "none",
                               None, {}, None, None)
       ELSE /\ config' = [config EXCEPT !.source_file_path = file_path]
            /\ view' = [view EXCEPT
                           !.file_path = file_path,
                           !.output_file_name =
                               default_output_name(config', today),
                           !.status_color =
                               IF path_exists(fs, file_path)
                               THEN "blue" ELSE "red"]
            /\ last' = Outcome("browse_file", << file_path, today >>, "none",
                               IF path_exists(fs, file_path) THEN None
                               ELSE Some(<< "error",
                                            "File Selection Error" >>),
                               {}, None, None)
    /\ UNCHANGED << fs, env, nproc >>

\* MainController.browse_file() when the dialog returns file_path (empty
\* when it is cancelled) on the day today
browse_file(file_path, today) ==
    /\ IF ~ Truthy(file_path)
       THEN /\ config' = config
            /\ view' = view
            /\ last' = Outcome("browse_file", << file_path, today >>, "none",
                               None, {}, None, None)
       ELSE IF ~ path_exists(fs, file_path)
       THEN /\ config' = config
            /\ view' = [view EXCEPT !.status_color = "red"]
            /\ last' = Outcome("browse_file", << file_path, today >>, "none",
                               Some(<< "error", "File Selection Error" >>),
                               {}, None, None)
       ELSE /\ config' = [config EXCEPT !.source_file_path = file_path]
            /\ view' = [view EXCEPT
                           !.file_path = file_path,
                           !.output_file_name =
                               default_output_name(config', today),
                           !.status_color = "blue"]
            /\ last' = Outcome("browse_file", << file_path, today >>, "none",
                               None, {}, None, None)
    /\ UNCHANGED << fs, env, nproc >>

\* MainController.generate_random_string()
controller_generate_random_string ==
    LET length == int_of(view.random_length)
        Shown(title) ==
            /\ view' = [view EXCEPT !.status_color = "red"]
            /\ last' = Outcome("controller_generate_random_string", << >>,
                               "none", Some(<< "error", title >>), {}, None,
                               None)
    IN /\ IF length = None
          THEN config' = config /\ Shown("Invalid Input")
          ELSE IF ~ (view.use_uppercase \/ view.use_lowercase
                       \/ view.use_numbers)
          THEN config' = config /\ Shown("Selection Error")
          ELSE /\ config' = [config EXCEPT !.max_random_length = length[1]]
               /\ IF generate_error(length[1], view.use_uppercase,
                        view.use_lowercase, view.use_numbers) # "none"
                  THEN Shown("Generation Error")
                  ELSE \E r \in random_choices(length[1],
                              view.use_uppercase, view.use_lowercase,
                              view.use_numbers) :
                       /\ view' = [view EXCEPT !.replace_text = r,
                                               !.status_color = "blue"]
                       /\ last' = Outcome(
                              "controller_generate_random_string", << >>,
                              "none", None, {}, None, None)
       /\ UNCHANGED << fs, env, nproc >>

\* process_file storing the fields of the view before it checks the output
\* file name
controller_process_file_storing_first ==
    /\ ~ Truthy(view.output_file_name)
    /\ config' = [config EXCEPT !.find_text = view.find_text,
                                !.replace_text = view.replace_text,
                                !.output_file_name = view.output_file_name]
    /\ view' = [view EXCEPT !.status_color = "red"]
    /\ last' = Outcome("controller_process_file",
                       Done("validation", None, None), "none",
                       Some(<< "error", "Validation Error" >>), {}, None,
                       None)
    /\ UNCHANGED << fs, env, nproc >>

\* MainController.process_file() when the output file name field is empty
controller_process_file_no_output_name ==
    /\ ~ Truthy(view.output_file_name)
    /\ config' = config
    /\ view' = [view EXCEPT !.status_color = "red"]
    /\ last' = Outcome("controller_process_file",
                       Done("validation", None, None), "none",
                       Some(<< "error", "Validation Error" >>), {}, None,
                       None)
    /\ UNCHANGED << fs, env, nproc >>

\* the configuration of a plain processing that keeps the source path the
\* model already holds
source_for_processing_kept(cfg, v) == cfg

\* the configuration after set_source_file(view.get_file_path()) for a path
\* that exists
source_for_processing(cfg, v) ==
    [cfg EXCEPT !.source_file_path = v.file_path]

\* MainController.process_file(); nproc counts the calls it makes of the
\* two processing methods of the model
controller_process_file ==
    LET cfg1 == [config EXCEPT !.find_text = view.find_text,
                               !.replace_text = view.replace_text,
                               !.output_file_name = view.output_file_name]
        pre_generated_password ==
            IF Truthy(str_strip(view.replace_text))
            THEN Some(str_strip(view.replace_text)) ELSE None
        Finish(cfg, r) ==
            LET report == report_of(r.err, view.db_pwd_mode)
            IN /\ nproc < MaxProc
               /\ nproc' = nproc + 1
               /\ config' = cfg
               /\ fs' = r.fs
               /\ env' = r.env
               /\ view' = [view EXCEPT !.status_color = report.status_color]
               /\ last' = Outcome("controller_process_file",
                              Done(r.err,
                                   IF "read" \in r.io
                                   THEN Some(cfg.source_file_path) ELSE None,
                                   r.ret),
                              report.err, report.dialog, r.io, r.wrote, None)
        NotCalled(failure) ==
            LET report == report_of(failure, view.db_pwd_mode)
            IN /\ config' = cfg1
               /\ view' = [view EXCEPT !.status_color = report.status_color]
               /\ last' = Outcome("controller_process_file",
                              Done(failure, None, None), report.err,
                              report.dialog, {}, None, None)
               /\ UNCHANGED << fs, env, nproc >>
    IN IF ~ Truthy(view.output_file_name)
       THEN controller_process_file_no_output_name
       ELSE IF view.db_pwd_mode
       THEN IF ~ (view.use_uppercase \/ view.use_lowercase
                    \/ view.use_numbers)
            THEN /\ config' = cfg1
                 /\ view' = [view EXCEPT !.status_color = "red"]
                 /\ last' = Outcome("controller_process_file",
                                Done("validation", None, None), "none",
                                Some(<< "error", "Selection Error" >>), {},
                                None, None)
                 /\ UNCHANGED << fs, env, nproc >>
            ELSE \E r \in process_db_password_file_results(cfg1, fs, env,
                        view.use_uppercase, view.use_lowercase,
                        view.use_numbers, Some(pre_generated_password)) :
                    Finish(cfg1, [ x \in DOMAIN r \ { "rot" } |-> r[x] ])
       ELSE IF ~ path_exists(fs, view.file_path)
            THEN NotCalled("FileNotFoundError")
            ELSE LET cfg2 == source_for_processing(cfg1, view)
                 IN \E r \in process_file_results(cfg2, fs, env) :
                       Finish(cfg2, r)

\* clear_all leaving the model as it is
clear_all_keeping_model ==
    /\ view' = MainView
    /\ config' = config
    /\ last' = Outcome("clear_all", << >>, "none", None, {}, None, None)
    /\ UNCHANGED << fs, env, nproc >>

\* MainController.clear_all()
clear_all ==
    /\ view' = MainView
    /\ config' = FileProcessorConfig
    /\ last' = Outcome("clear_all", << >>, "none", None, {}, None, None)
    /\ UNCHANGED << fs, env, nproc >>

----------------------------------------------------------------------------
(* What the environment does to the files between two calls *)

\* the file p is deleted
remove_file(p) ==
    /\ CanRead(fs, p)
    /\ fs' = [ q \in DOMAIN fs \ { Resolve(p)[1] } |-> fs[q] ]
    /\ last' = Outcome("remove_file", p, "none", None, {}, None, None)
    /\ UNCHANGED << config, env, view, nproc >>

\* the file p loses its read permission
revoke_read(p) ==
    /\ CanRead(fs, p)
    /\ Resolve(p)[1] \notin env.unreadable
    /\ env' = [env EXCEPT !.unreadable = @ \cup { Resolve(p)[1] }]
    /\ last' = Outcome("revoke_read", p, "none", None, {}, None, None)
    /\ UNCHANGED << config, fs, view, nproc >>

\* the file p is overwritten with bytes that are not UTF-8
corrupt_file(p) ==
    /\ CanRead(fs, p)
    /\ Resolve(p)[1] \notin env.undecodable
    /\ env' = [env EXCEPT !.undecodable = @ \cup { Resolve(p)[1] }]
    /\ last' = Outcome("corrupt_file", p, "none", None, {}, None, None)
    /\ UNCHANGED << config, fs, view, nproc >>

\* the disk runs out of room
fill_disk ==
    /\ ~ env.disk_full
    /\ env' = [env EXCEPT !.disk_full = TRUE]
    /\ last' = Outcome("fill_disk", << >>, "none", None, {}, None, None)
    /\ UNCHANGED << config, fs, view, nproc >>

----------------------------------------------------------------------------
(* The inputs of the model *)

\* paths handed to set_source_file: two files and a missing file
PathF == << "/", "d", "/", "f" >>

PathG == << "/", "d", "/", "g" >>

PathMissing == << "/", "d", "/", "x" >>

SourcePaths == { PathF, PathG, PathMissing }

\* names handed to set_output_file_name: empty, a plain name, the base name
\* of a source file, an absolute path, a path through the parent directory
OutputNames ==
    { << >>, << "o" >>, << "f" >>, << "/", "e", "/", "o" >>,
      << ".", ".", "/", "e", "/", "o" >> }

FindReplacePairs == { << << "a" >>, << "1" >> >>, << << >>, << "1" >> >> }

\* lengths handed to set_max_random_length
Lengths == { -1, 0, 1 }

\* the character-class flags callers pass (upper, lower, numbers): all
\* classes, one class, no class
FlagChoices ==
    { << TRUE, TRUE, TRUE >>, << TRUE, FALSE, FALSE >>,
      << FALSE, FALSE, FALSE >> }

\* what callers pass as pre_generated_password: nothing, None, a secret,
\* a blank string
PreGenerated ==
    { None, Some(None), Some(Some(<< "1" >>)), Some(Some(<< " " >>)) }

Init ==
    /\ config = FileProcessorConfig
    /\ fs = InitFs
    /\ env = NoFaults
    /\ view = MainView
    /\ last = InitLast(InitFs)
    /\ nproc = 0

Next ==
    \/ \E file_path \in SourcePaths : set_source_file(file_path)
    \/ \E fr \in FindReplacePairs : set_find_replace_text(fr[1], fr[2])
    \/ \E name \in OutputNames : set_output_file_name(name)
    \/ \E length \in Lengths : set_max_random_length(length)
    \/ process_file
    \/ \E flags \in FlagChoices, pre \in PreGenerated :
          process_db_password_file(flags[1], flags[2], flags[3], pre)

Spec == Init /\ [][Next]_vars

----------------------------------------------------------------------------
(* Rotation of arbitrary inputs: /d/f holds any text of the family below,   *)
(* the configuration names it as the source and "o" as the output, and the  *)
(* one call that remains is a process_db_password_file.                     *)

PwChars == { "a", "b" }

BodyChars == { "a", "b" }

Passwords == Texts(PwChars, 1, MaxPwLen)

\* first lines: both patterns, one pattern only, no pattern
FirstLines ==
    { rotation_line(n, c) : n \in Passwords, c \in Passwords }
        \cup { by_clause(n) : n \in Passwords }
        \cup { replace_clause(c) : c \in Passwords }
        \cup { << "a", "b" >>, << >> }

RotationInputs ==
    { line \o << "\n" >> \o body :
        line \in FirstLines, body \in Texts(BodyChars, 0, MaxBodyLen) }

InitRot ==
    /\ \E content \in RotationInputs :
          fs = [ node \in { << <<"d">>, <<"f">> >> } |-> content ]
    /\ \E length \in 1..MaxLen :
          config = [ FileProcessorConfig EXCEPT
                       !.source_file_path = PathF,
                       !.output_file_name = << "o" >>,
                       !.max_random_length = length ]
    /\ env = NoFaults
    /\ view = MainView
    /\ last = InitLast(fs)
    /\ nproc = MaxProc - 1

NextRot ==
    \E flags \in FlagChoices, pre \in PreGenerated :
        process_db_password_file(flags[1], flags[2], flags[3], pre)

SpecRot == InitRot /\ [][NextRot]_vars

----------------------------------------------------------------------------
(* Plain find/replace of arbitrary inputs: /d/f holds any short text, with  *)
(* or without carriage returns, the configuration names it as the source,   *)
(* "o" as the output and any short find and replace text, and the one call  *)
(* that remains is a process_file.                                          *)

PlainChars == { "a", "b", "\r" }

FindChars == { "a", "b" }

InitPlain ==
    /\ \E content \in Texts(PlainChars, 0, MaxContentLen) :
          fs = [ node \in { << <<"d">>, <<"f">> >> } |-> content ]
    /\ \E find_text \in Texts(FindChars, 0, MaxFindLen),
          replace_text \in Texts(FindChars, 0, MaxReplaceLen) :
          config = [ FileProcessorConfig EXCEPT
                       !.source_file_path = PathF,
                       !.find_text = find_text,
                       !.replace_text = replace_text,
                       !.output_file_name = << "o" >> ]
    /\ env = NoFaults
    /\ view = MainView
    /\ last = InitLast(fs)
    /\ nproc = MaxProc - 1

NextPlain == process_file

SpecPlain == InitPlain /\ [][NextPlain]_vars

----------------------------------------------------------------------------
(* Processing in a failing environment: the configuration names a source    *)
(* that existed when it was stored and an output beside it, new ("o") or    *)
(* existing ("g"); the environment may then delete the source, make it      *)
(* unreadable or undecodable, or fill the disk, before the one call that    *)
(* remains.                                                                 *)

FaultSources == { PathF, PathG }

FaultOutputs == { << "o" >>, << "g" >> }

InitFault ==
    /\ fs = InitFs
    /\ \E file_path \in FaultSources, name \in FaultOutputs,
          fr \in FindReplacePairs, length \in 1..MaxLen :
          config = [ FileProcessorConfig EXCEPT
                       !.source_file_path = file_path,
                       !.find_text = fr[1],
                       !.replace_text = fr[2],
                       !.output_file_name = name,
                       !.max_random_length = length ]
    /\ env = NoFaults
    /\ view = MainView
    /\ last = InitLast(fs)
    /\ nproc = MaxProc - 1

NextFault ==
    \/ remove_file(config.source_file_path)
    \/ revoke_read(config.source_file_path)
    \/ corrupt_file(config.source_file_path)
    \/ fill_disk
    \/ process_file
    \/ \E flags \in FlagChoices, pre \in PreGenerated :
          process_db_password_file(flags[1], flags[2], flags[3], pre)

SpecFault == InitFault /\ [][NextFault]_vars

----------------------------------------------------------------------------
(* Secret generation: generate_random_string is called with any length,     *)
(* given or omitted, and any selection of classes, between calls that set   *)
(* the configured length.                                                   *)

\* the lengths callers pass: none (the configured length is used), and the
\* lengths from -1 to the longest the model draws
GenLengths == { None } \cup { Some(n) : n \in -1..MaxLen }

InitGen == Init

NextGen ==
    \/ \E length \in Lengths : set_max_random_length(length)
    \/ \E length \in GenLengths, up \in BOOLEAN, lo \in BOOLEAN,
          nu \in BOOLEAN : generate_random_string(length, up, lo, nu)

SpecGen == InitGen /\ [][NextGen]_vars

----------------------------------------------------------------------------
(* Extraction from arbitrary contents: extract_db_passwords_from_first_line *)
(* is called with contents whose first line holds a BY or a REPLACE clause  *)
(* in any letter case, alone, after another word or glued to one, with no,  *)
(* one or several whitespace characters before a literal that is empty or   *)
(* not; both clauses in either order; or no clause at all.  The first line  *)
(* ends the content or is followed by further lines.                        *)

QUOTE == "\""

\* pre kw gap "lit"
Clause(pre, kw, gap, lit) == pre \o kw \o gap \o << QUOTE >> \o lit \o << QUOTE >>

ClausePrefixes == { << >>, << "x" >>, << "x", " " >> }

ClauseGaps == { << >>, << " " >>, << "\t", " " >> }

ClauseLiterals == { << >>, << "a" >> }

ByClauses ==
    { Clause(pre, kw, gap, lit) :
        pre \in ClausePrefixes, kw \in { by_pattern, << "b", "y" >> },
        gap \in ClauseGaps, lit \in ClauseLiterals }

ReplaceClauses ==
    { Clause(pre, kw, gap, lit) :
        pre \in ClausePrefixes,
        kw \in { replace_pattern, << "r", "e", "p", "l", "a", "c", "e" >> },
        gap \in ClauseGaps, lit \in ClauseLiterals }

ExtractPasswords == { << "a" >>, << "b" >> }

\* both clauses, BY first or REPLACE first
BothClauses ==
    { rotation_line(n, c) : n \in ExtractPasswords, c \in ExtractPasswords }
        \cup { replace_clause(c) \o << " " >> \o by_clause(n) :
                 n \in ExtractPasswords, c \in ExtractPasswords }

ExtractLines ==
    ByClauses \cup ReplaceClauses \cup BothClauses
        \cup { by_clause(n) : n \in ExtractPasswords }
        \cup { replace_clause(c) : c \in ExtractPasswords }
        \cup { << >>, << " " >>, << "a", "b" >>,
               Clause(<< "x" >>, by_pattern, << " " >>, << "b" >>)
                   \o << " " >> \o by_clause(<< "a" >>) }

\* what follows the first line: nothing, an empty second line, a second
\* line with both patterns
ExtractRests ==
    { << >>, << "\n" >>,
      << "\n" >> \o rotation_line(<< "b" >>, << "a" >>) }

ExtractInputs == { line \o rest : line \in ExtractLines, rest \in ExtractRests }

InitExtract == Init

NextExtract == \E content \in ExtractInputs : extract_db_passwords(content)

SpecExtract == InitExtract /\ [][NextExtract]_vars

----------------------------------------------------------------------------
(* Default output names: the working directory /d holds a file for every    *)
(* short name made of letters and dots; set_source_file is called with such *)
(* a name, alone or after "/d/", and get_default_output_name on some day.   *)

NameChars == { "a", "." }

Names == Texts(NameChars, 1, MaxNameLen)

NamePaths == Names \cup { << "/", "d", "/" >> \o name : name \in Names }

\* the days the clock shows
Dates ==
    { [ year |-> 2025, month |-> 7, day |-> 28 ],
      [ year |-> 2026, month |-> 11, day |-> 2 ],
      [ year |-> 2024, month |-> 1, day |-> 9 ] }

\* a file /d/name for every name that is not a directory
NameFs ==
    [ node \in { << <<"d">>, name >> : name \in Names \ { << "." >>, << ".", "." >> } }
        |-> << "a" >> ]

InitName ==
    /\ config = FileProcessorConfig
    /\ fs = NameFs
    /\ env = NoFaults
    /\ view = MainView
    /\ last = InitLast(NameFs)
    /\ nproc = 0

NextName ==
    \/ \E file_path \in NamePaths : set_source_file(file_path)
    \/ \E today \in Dates : get_default_output_name(today)

SpecName == InitName /\ [][NextName]_vars

----------------------------------------------------------------------------
(* The controller between the view and the model: the user fills the       *)
(* fields of the view and presses the buttons, in any order, while a file  *)
(* may become unreadable.                                                   *)

\* what the file dialog returns: cancelled, a file, a missing file
DialogPaths == { << >>, PathF, PathMissing }

\* what the user does to the fields: a path typed into the source file
\* field, the find and replace fields filled, the output file name typed or
\* emptied, the checkboxes set to plain mode, to db pwd mode and to db pwd
\* mode without a character class
UserInputs ==
    { [ file_path |-> PathG ],
      [ find_text |-> << "a" >>, replace_text |-> << "1" >> ],
      [ output_file_name |-> << "o" >> ],
      [ output_file_name |-> << >> ],
      [ use_uppercase |-> TRUE, use_lowercase |-> TRUE, use_numbers |-> TRUE,
        db_pwd_mode |-> FALSE ],
      [ use_uppercase |-> TRUE, use_lowercase |-> TRUE, use_numbers |-> TRUE,
        db_pwd_mode |-> TRUE ],
      [ use_uppercase |-> FALSE, use_lowercase |-> FALSE,
        use_numbers |-> FALSE, db_pwd_mode |-> TRUE ] }

\* the day the clock shows
Today == [ year |-> 2025, month |-> 7, day |-> 28 ]

InitCtl == Init

NextCtl ==
    \/ \E typed \in UserInputs : user_input(typed)
    \/ \E file_path \in DialogPaths : browse_file(file_path, Today)
    \/ controller_process_file
    \/ clear_all
    \/ revoke_read(PathG)

SpecCtl == InitCtl /\ [][NextCtl]_vars

----------------------------------------------------------------------------
(* Clearing: the user fills the window, generates, processes and clears, in *)
(* any order.                                                               *)

\* the find and replace fields filled, an output file name typed, a length
\* typed, every character class unticked
ClearInputs ==
    { [ find_text |-> << "a" >>, replace_text |-> << "1" >> ],
      [ output_file_name |-> << "o" >> ],
      [ random_length |-> << "0" >> ],
      [ random_length |-> << "x" >> ],
      [ use_uppercase |-> FALSE, use_lowercase |-> FALSE,
        use_numbers |-> FALSE ] }

InitClear == Init

NextClear ==
    \/ \E typed \in ClearInputs : user_input(typed)
    \/ browse_file(PathF, Today)
    \/ controller_generate_random_string
    \/ controller_process_file
    \/ clear_all

SpecClear == InitClear /\ [][NextClear]_vars

----------------------------------------------------------------------------
(* Properties of the rotation (checked under SpecRot) *)

RotationCalled == last.op = "process_db_password_file"

RotationSucceeded == RotationCalled /\ last.err = "none"

\* the content process_db_password_file wrote
RotationOutput == fs[last.wrote[1]]

\* the text after the first line
BodyOf(content) ==
    SubSeq(content, Len(first_line_of(content)) + 2, Len(content))

\* a non-empty suffix of x is a prefix of y
Borders(x, y) ==
    \E k \in 1..(IF Len(x) < Len(y) THEN Len(x) ELSE Len(y)) :
        SubSeq(x, Len(x) - k + 1, Len(x)) = SubSeq(y, 1, k)

\* neither text occurs in the other and no end of one starts the other
NoOverlap(x, y) ==
    /\ ~ Contains(x, y)
    /\ ~ Contains(y, x)
    /\ ~ Borders(x, y)
    /\ ~ Borders(y, x)

RECURSIVE SimultaneousFrom(_, _, _, _, _)
SimultaneousFrom(s, new_pw, cur_pw, next_pw, i) ==
    IF i > Len(s) THEN << >>
    ELSE IF MatchAt(s, new_pw, i)
         THEN next_pw \o SimultaneousFrom(s, new_pw, cur_pw, next_pw,
                                          i + Len(new_pw))
    ELSE IF MatchAt(s, cur_pw, i)
         THEN new_pw \o SimultaneousFrom(s, new_pw, cur_pw, next_pw,
                                         i + Len(cur_pw))
    ELSE << s[i] >> \o SimultaneousFrom(s, new_pw, cur_pw, next_pw, i + 1)

\* C2: the output of a successful rotation has the next secret S exactly
\* where N stood in the source and N exactly where C stood, and every other
\* character unchanged; text produced by the first substitution is never
\* rewritten by the second.
C2_NetEffectOfRotation ==
    RotationSucceeded =>
        RotationOutput = SimultaneousFrom(last.rot[1].content,
                             last.rot[1].new_pw, last.rot[1].cur_pw,
                             last.rot[1].next_pw, 1)

\* the rotation has what it needs: source and output name are set, the source
\* is readable, both patterns are on its first line, the output is writable
RotationReady ==
    /\ Truthy(config.source_file_path)
    /\ Truthy(config.output_file_name)
    /\ CanRead(last.pre_fs, config.source_file_path)
    /\ LET pws == extract_db_passwords_from_first_line(
                      last.pre_fs[Resolve(config.source_file_path)[1]])
       IN pws[1] # None /\ pws[2] # None
    /\ CanWrite(last.pre_fs, output_path_of(config))

\* the characters of the classes selected by the flags of the last rotation
SelectedChars ==
    LET cs == char_set_of(last.arg[1], last.arg[2], last.arg[3])
    IN { cs[k] : k \in 1..Len(cs) }

\* C3: a rotation called with a pre-generated secret that is not blank uses
\* it verbatim as the next secret; called with None or a blank string it
\* generates a secret of the configured length from the selected classes.
C3_PreGeneratedSecretIsUsed ==
    (RotationCalled /\ last.arg[4] # None /\ RotationReady
        /\ (last.arg[1] \/ last.arg[2] \/ last.arg[3])) =>
        /\ last.err = "none"
        /\ LET pre == last.arg[4][1]
               next_pw == last.rot[1].next_pw
           IN IF pre # None /\ Truthy(str_strip(pre[1]))
              THEN next_pw = pre[1]
              ELSE /\ Len(next_pw) = config.max_random_length
                   /\ \A k \in 1..Len(next_pw) : next_pw[k] \in SelectedChars

\* C9: a rotation of a readable source whose first line lacks the BY
\* pattern, the REPLACE pattern or both fails with ValueError and leaves the
\* file system as it was.
C9_MissingPatternIsInvalidArgument ==
    (/\ RotationCalled
     /\ Truthy(config.source_file_path)
     /\ Truthy(config.output_file_name)
     /\ CanRead(last.pre_fs, config.source_file_path)
     /\ LET pws == extract_db_passwords_from_first_line(
                       last.pre_fs[Resolve(config.source_file_path)[1]])
        IN pws[1] = None \/ pws[2] = None) =>
        /\ last.err = "ValueError"
        /\ fs = last.pre_fs

----------------------------------------------------------------------------
(* Properties of the configuration and of processing (checked under Spec) *)

\* C4: the configured length of generated secrets is positive in every
\* reachable state.
C4_SecretLengthIsPositive == config.max_random_length > 0

\* C5: set_max_random_length(n) raises ValueError for every n <= 0 and
\* stores n for every n > 0.
C5_SetLengthRejectsNonPositive ==
    last.op = "set_max_random_length" =>
        IF last.arg <= 0
        THEN last.err = "ValueError"
        ELSE last.err = "none" /\ config.max_random_length = last.arg

\* C6: set_source_file(path) with a path that does not exist raises
\* FileNotFoundError and leaves every configuration field as it was; with a
\* path that exists it stores the path and changes no other field.
C6_SetSourceFileChecksExistence ==
    [][ last'.op = "set_source_file" =>
          IF path_exists(fs, last'.arg)
          THEN /\ last'.err = "none"
               /\ config' = [config EXCEPT !.source_file_path = last'.arg]
          ELSE /\ last'.err = "FileNotFoundError"
               /\ config' = config ]_vars

\* a failed set_source_file after which the path stored earlier is still
\* the source
C6_Witness ==
    /\ last.op = "set_source_file"
    /\ last.err = "FileNotFoundError"
    /\ last.arg = PathMissing
    /\ config.source_file_path = PathF

ProcessCalled == last.op \in { "process_file", "process_db_password_file" }

\* C7: processing never changes the content of the source file, whatever
\* the output name is.
C7_SourceFileIsNeverChanged ==
    (ProcessCalled /\ CanRead(last.pre_fs, config.source_file_path)) =>
        LET node == Resolve(config.source_file_path)[1]
        IN node \in DOMAIN fs /\ fs[node] = last.pre_fs[node]

\* C8: the file processing writes lies in the directory of the source file,
\* whatever the output name is.
C8_OutputLiesBesideSource ==
    (ProcessCalled /\ last.wrote # None) =>
        Some(ParentOf(last.wrote[1]))
            = Resolve(dirname(config.source_file_path))

\* C10: processing with the source path or the output name unset fails with
\* ValueError before any file is opened, and changes no file.
C10_UnsetConfigurationIsInvalidArgument ==
    (ProcessCalled /\ (~ Truthy(config.source_file_path)
                        \/ ~ Truthy(config.output_file_name))) =>
        /\ last.err = "ValueError"
        /\ last.io = {}
        /\ fs = last.pre_fs

----------------------------------------------------------------------------
(* Properties of plain find/replace (checked under SpecPlain) *)

PlainSucceeded == last.op = "process_file" /\ last.err = "none"

\* the content of the source file when process_file started
SourceContent == last.pre_fs[Resolve(config.source_file_path)[1]]

\* the content process_file wrote
PlainOutput == fs[last.wrote[1]]

\* the start positions of the occurrences of F a leftmost-first scan of C
\* finds: F occurs there, and no occurrence found earlier covers the position
Occurrences(C, F) ==
    CHOOSE P \in SUBSET (1..Len(C)) :
        \A p \in 1..Len(C) :
            p \in P <=> /\ MatchAt(C, F, p)
                        /\ \A q \in P : ~ (q < p /\ p < q + Len(F))

\* C11: for non-empty find_text F, replace_text R and source content C, the
\* output of process_file is C with exactly the occurrences of F a
\* leftmost-first scan finds replaced by R: every character outside those
\* occurrences is in the output, unchanged and in order.
C11_ExactlyTheOccurrencesAreReplaced ==
    (PlainSucceeded /\ Truthy(config.find_text)) =>
        LET C == SourceContent
            F == config.find_text
            R == config.replace_text
            P == Occurrences(C, F)
            At(i) == i + Cardinality({ q \in P : q < i }) * (Len(R) - Len(F))
        IN /\ Len(PlainOutput) = Len(C) + Cardinality(P) * (Len(R) - Len(F))
           /\ \A q \in P :
                 SubSeq(PlainOutput, At(q), At(q) + Len(R) - 1) = R
           /\ \A i \in 1..Len(C) :
                 (\A q \in P : ~ (q <= i /\ i < q + Len(F))) =>
                     PlainOutput[At(i)] = C[i]

\* C12: with an empty find_text the output of process_file is identical to
\* the content of the source file, whatever replace_text is.
C12_EmptyFindTextCopiesTheSource ==
    (PlainSucceeded /\ ~ Truthy(config.find_text)) =>
        PlainOutput = SourceContent

----------------------------------------------------------------------------
(* Properties of processing in a failing environment (checked under        *)
(* SpecFault)                                                              *)

\* C13: when writing the output fails, processing raises IOError and leaves
\* no partial or truncated content at the output path: a file that was there
\* keeps its content, and no file is there if none was.
C13_FailedWriteLeavesNoPartialOutput ==
    (ProcessCalled /\ "write" \in last.io /\ last.err # "none") =>
        /\ last.err = "IOError"
        /\ LET out == Resolve(output_path_of(config))
           IN out # None =>
                 IF out[1] \in DOMAIN last.pre_fs
                 THEN /\ out[1] \in DOMAIN fs
                      /\ fs[out[1]] = last.pre_fs[out[1]]
                 ELSE out[1] \notin DOMAIN fs

\* C14: processing with a stored source that has since been deleted or has
\* become unreadable or undecodable raises IOError and writes no file.
C14_LostSourceIsIOError ==
    (/\ ProcessCalled
     /\ Truthy(config.source_file_path)
     /\ Truthy(config.output_file_name)
     /\ ~ CanReadText(last.pre_fs, last.pre_env, config.source_file_path)) =>
        /\ last.err = "IOError"
        /\ fs = last.pre_fs

----------------------------------------------------------------------------
(* Properties of secret generation (checked under SpecGen) *)

GenerateCalled == last.op = "generate_random_string"

\* the length the last generate_random_string call works with: the one it
\* was given or, when it was given none, the configured one
RequestedLength ==
    IF last.arg[1] = None THEN config.max_random_length ELSE last.arg[1][1]

UppercaseLetters ==
    { "A", "B", "C", "D", "E", "F", "G", "H", "I", "J", "K", "L", "M",
      "N", "O", "P", "Q", "R", "S", "T", "U", "V", "W", "X", "Y", "Z" }

LowercaseLetters ==
    { "a", "b", "c", "d", "e", "f", "g", "h", "i", "j", "k", "l", "m",
      "n", "o", "p", "q", "r", "s", "t", "u", "v", "w", "x", "y", "z" }

DecimalDigits == { "0", "1", "2", "3", "4", "5", "6", "7", "8", "9" }

\* the union of the classes the flags up, lo, nu select
ClassUnion(up, lo, nu) ==
    (IF up THEN UppercaseLetters ELSE {})
        \cup (IF lo THEN LowercaseLetters ELSE {})
        \cup (IF nu THEN DecimalDigits ELSE {})

\* C15: generate_random_string with a positive length n and at least one
\* class selected returns a string of exactly n characters, all of them in
\* the union of the selected classes; n is the configured length when no
\* length is given.
C15_GeneratedStringHasLengthAndAlphabet ==
    (GenerateCalled /\ RequestedLength > 0
        /\ (last.arg[2] \/ last.arg[3] \/ last.arg[4])) =>
        /\ last.err = "none"
        /\ last.ret # None
        /\ Len(last.ret[1]) = RequestedLength
        /\ \A k \in 1..Len(last.ret[1]) :
              last.ret[1][k] \in ClassUnion(last.arg[2], last.arg[3],
                                            last.arg[4])

\* a call without a length, with lowercase only, after the configured length
\* was set to 1
C15_Witness ==
    /\ GenerateCalled
    /\ last.arg = << None, FALSE, TRUE, FALSE >>
    /\ config.max_random_length = 1
    /\ last.ret = Some(<< "b" >>)

\* C16: generate_random_string raises ValueError and returns no string when
\* the length is not positive and when no class is selected.
C16_GenerateRejectsBadArguments ==
    (GenerateCalled /\ (RequestedLength <= 0
        \/ ~ (last.arg[2] \/ last.arg[3] \/ last.arg[4]))) =>
        /\ last.err = "ValueError"
        /\ last.ret = None

\* a call with length 0 and every class selected that raised ValueError
C16_Witness ==
    /\ GenerateCalled
    /\ last.arg = << Some(0), TRUE, TRUE, TRUE >>
    /\ last.err = "ValueError"

----------------------------------------------------------------------------
(* The secret a rotation writes (checked under SpecRot) *)

\* the secret of the output: the quoted text of the BY pattern on the first
\* line of what the rotation wrote
WrittenSecret == extract_db_passwords_from_first_line(RotationOutput)[1]

\* C17: after a rotation that generated the next secret itself, the secret
\* written into the output has exactly the configured length and only
\* characters of the classes passed to the call.
C17_WrittenSecretHasLengthAndAlphabet ==
    (RotationSucceeded /\ last.arg[4] = None) =>
        /\ WrittenSecret # None
        /\ Len(WrittenSecret[1]) = config.max_random_length
        /\ \A k \in 1..Len(WrittenSecret[1]) :
              WrittenSecret[1][k] \in ClassUnion(last.arg[1], last.arg[2],
                                                 last.arg[3])

----------------------------------------------------------------------------
(* Properties of the extraction (checked under SpecExtract) *)

ExtractCalled == last.op = "extract_db_passwords_from_first_line"

\* the pair the last extraction returned
Extracted == last.ret[1]

\* the text before the first newline of content, the whole content if it
\* has no newline
BeforeFirstNewline(content) ==
    LET ns == { k \in 1..Len(content) : content[k] = "\n" }
    IN IF ns = {} THEN content
       ELSE SubSeq(content, 1,
                   (CHOOSE k \in ns : \A j \in ns : k <= j) - 1)

\* C18: the extraction depends only on the text before the first newline:
\* every content with the same first line gives the same pair, and a pattern
\* the first line does not hold is not reported, whatever later lines hold.
C18_OnlyTheFirstLineCounts ==
    ExtractCalled =>
        LET line == BeforeFirstNewline(last.arg)
        IN /\ \A other \in ExtractInputs :
                 BeforeFirstNewline(other) = line =>
                     extract_db_passwords_from_first_line(other) = Extracted
           /\ re_search_from(line, by_pattern, 1) = None
                 => Extracted[1] = None
           /\ re_search_from(line, replace_pattern, 1) = None
                 => Extracted[2] = None

\* a blank first line followed by a line with both patterns: nothing is
\* reported
C18_Witness ==
    /\ ExtractCalled
    /\ last.arg = << " ", "\n" >> \o rotation_line(<< "b" >>, << "a" >>)
    /\ Extracted = << None, None >>

\* the characters that make a keyword the tail of a longer word
WordChars == UppercaseLetters \cup LowercaseLetters \cup DecimalDigits \cup { "_" }

\* group 1 of the leftmost match of  kw\s+"([^"]+)"  that does not start
\* right after a word character, or None
RECURSIVE token_search_from(_, _, _)
token_search_from(line, kw, i) ==
    IF i > Len(line) THEN None
    ELSE LET m == IF i > 1 /\ line[i - 1] \in WordChars
                  THEN None ELSE QuotedAt(line, kw, i)
         IN IF m # None THEN m ELSE token_search_from(line, kw, i + 1)

\* C19: new_password is the quoted text that follows the token BY (in any
\* letter case, not as the tail of a longer word) and one or more whitespace
\* characters on the first line, None when the line has no such token;
\* current_password likewise for the token REPLACE.
C19_KeywordsAreTokens ==
    ExtractCalled =>
        LET line == BeforeFirstNewline(last.arg)
        IN /\ Extracted[1] = token_search_from(line, by_pattern, 1)
           /\ Extracted[2] = token_search_from(line, replace_pattern, 1)

\* C20: the two searches are independent: a first line with only the
\* REPLACE pattern gives (None, current), one with only the BY pattern gives
\* (new, None), and one with both gives (new, current) in either order.
C20_SearchesAreIndependent ==
    ExtractCalled =>
        LET line == BeforeFirstNewline(last.arg)
        IN \A n \in ExtractPasswords, c \in ExtractPasswords :
              /\ line = replace_clause(c) => Extracted = << None, Some(c) >>
              /\ line = by_clause(n) => Extracted = << Some(n), None >>
              /\ line = rotation_line(n, c)
                    => Extracted = << Some(n), Some(c) >>
              /\ line = replace_clause(c) \o << " " >> \o by_clause(n)
                    => Extracted = << Some(n), Some(c) >>

\* REPLACE before BY on the first line: both are found
C20_Witness ==
    /\ ExtractCalled
    /\ last.arg = replace_clause(<< "a" >>) \o << " " >>
                      \o by_clause(<< "b" >>)
    /\ Extracted = << Some(<< "b" >>), Some(<< "a" >>) >>

----------------------------------------------------------------------------
(* Properties of the default output name (checked under SpecName) *)

\* name split at its last dot: << stem, extension >>, the extension with its
\* dot, empty when the name has no dot
SplitAtLastDot(name) ==
    LET ds == { k \in 1..Len(name) : name[k] = "." }
    IN IF ds = {} THEN << name, << >> >>
       ELSE LET d == CHOOSE k \in ds : \A j \in ds : j <= k
            IN << SubSeq(name, 1, d - 1), SubSeq(name, d, Len(name)) >>

\* C21: for every source file name, get_default_output_name returns
\* stem + "_" + YYYY_MM_DD + extension, stem and extension being the base
\* name split at its last dot.
C21_DefaultNameSplitsAtLastDot ==
    (last.op = "get_default_output_name"
        /\ Truthy(config.source_file_path)) =>
        LET parts == SplitAtLastDot(basename(config.source_file_path))
        IN last.ret[1] = parts[1] \o << "_" >> \o strftime(last.arg)
                            \o parts[2]

----------------------------------------------------------------------------
(* The output of a rotation as the input of the next (checked under        *)
(* SpecRot)                                                                *)

\* C29: after a successful rotation with extracted passwords N and C and
\* next secret S, extracting from the output gives (S, N): the output is a
\* rotation input whose new password is S and whose current password is N.
C29_OutputIsTheNextRotationInput ==
    RotationSucceeded =>
        extract_db_passwords_from_first_line(RotationOutput)
            = << Some(last.rot[1].next_pw), Some(last.rot[1].new_pw) >>

----------------------------------------------------------------------------
(* The configuration across processing (checked under Spec) *)

\* C28: process_file and process_db_password_file, whether they return or
\* raise, leave the five fields of the configuration as they were.
C28_ProcessingLeavesConfiguration ==
    [][ last'.op \in { "process_file", "process_db_password_file" }
          => config' = config ]_vars

\* a process_file that returned, and a configuration whose fields are set
C28_Witness ==
    /\ last.op = "process_file"
    /\ last.err = "none"
    /\ config.source_file_path = PathF
    /\ config.find_text = << "a" >>
    /\ config.replace_text = << "1" >>
    /\ config.output_file_name = << "o" >>
    /\ config.max_random_length = 1

----------------------------------------------------------------------------
(* The controller (checked under SpecCtl) *)

ControllerProcessed == last.op = "controller_process_file"

\* the dialog the last controller call showed is of this kind
Showed(kind) == last.ret # None /\ last.ret[1][1] = kind

\* C22: in db pwd mode, with a source file chosen, an output name, a
\* character class ticked and both patterns on the first line of the source,
\* process_file writes the rotated output and shows a success message and a
\* green status.
C22_DbPwdModeRotates ==
    (/\ ControllerProcessed
     /\ view.db_pwd_mode
     /\ Truthy(view.output_file_name)
     /\ (view.use_uppercase \/ view.use_lowercase \/ view.use_numbers)
     /\ Truthy(config.source_file_path)
     /\ CanReadText(last.pre_fs, last.pre_env, config.source_file_path)
     /\ LET pws == extract_db_passwords_from_first_line(
                       read_text(last.pre_fs, config.source_file_path))
        IN pws[1] # None /\ pws[2] # None)
    => (/\ last.wrote # None
        /\ Showed("success")
        /\ view.status_color = "green")

\* C23: process_file of the controller lets no exception out; every failure
\* ends with an error dialog and a red status; a success dialog is shown
\* only when the model returned an output path.
C23_ProcessFileReportsEveryFailure ==
    ControllerProcessed =>
        /\ last.err = "none"
        /\ last.arg.failure # "none" =>
              (Showed("error") /\ view.status_color = "red")
        /\ Showed("success") =>
              (last.arg.failure = "none" /\ last.arg.returned # None)

\* a process_file whose model call raised an exception that has no clause
\* of its own
C23_Witness ==
    /\ ControllerProcessed
    /\ last.arg.failure = "TypeError"
    /\ last.ret = Some(<< "error", "Unexpected Error" >>)
    /\ view.status_color = "red"

\* C25: process_file with an empty output file name field shows an error and
\* returns: no field of the configuration changes, no file is opened, read
\* or written, in plain mode and in db pwd mode.
C25_EmptyOutputNameChangesNothing ==
    [][ (last'.op = "controller_process_file"
            /\ ~ Truthy(view.output_file_name))
          => (/\ config' = config
              /\ fs' = fs
              /\ last'.io = {}
              /\ last'.wrote = None
              /\ last'.ret # None /\ last'.ret[1][1] = "error"
              /\ view'.status_color = "red") ]_vars

\* db pwd mode, the find field filled, the output file name field empty:
\* the configuration holds a source path and still its old find text
C25_Witness ==
    /\ ControllerProcessed
    /\ ~ Truthy(view.output_file_name)
    /\ view.db_pwd_mode
    /\ last.ret = Some(<< "error", "Validation Error" >>)
    /\ view.find_text = << "a" >>
    /\ config.find_text = << >>
    /\ config.source_file_path = PathF

----------------------------------------------------------------------------
(* Clearing (checked under SpecClear) *)

====
